---------------------------- MODULE Spec2Model ----------------------------
(***************************************************************************)
(* SplitXL (src/excel_splitter.py): the worker function                    *)
(* split_excel_file_with_formatting, run in its own thread, and the Tk     *)
(* main thread of class App that polls the worker's queue on a timer.      *)
(*                                                                         *)
(* A sheet is its row count, its column count and its merged ranges; a     *)
(* cell is named by the source row it was copied from.  An output workbook *)
(* is the sequence of source rows copied to its target rows 1, 2, ...      *)
(* together with the merged ranges created on it.                          *)
(***************************************************************************)
EXTENDS Integers, Sequences, FiniteSets, TLC

(* ------------------------------ bounds -------------------------------- *)
MaxRows  == 4      \* largest max_row of a sheet
MaxCols  == 1      \* largest max_column of a sheet
MaxChunk == 2      \* largest chunk_size the user enters
MaxHead  == 2      \* largest heading_rows the user enters
MaxMerge == 1      \* most merged ranges on the source sheet
MaxAttr  == 2      \* distinct values, styles, hyperlinks and comments of a cell

VARIABLES
  chunk_size,       \* self.chunk_size, argument of the worker
  heading_arg,      \* self.heading_rows, argument of the worker
  ui,               \* where the Tk main thread is
  total_steps,      \* ProgressManager.total_steps (0: no progress window)
  summary,          \* the results on_task_finished was called with, in order
  worker,           \* where the worker thread is
  alive,            \* worker_thread.is_alive()
  ws_source,        \* the loaded sheet: total_rows, max_col, merged ranges
  heading_rows,     \* the worker's clamped heading_rows
  num_chunks,       \* the worker's num_chunks
  i,                \* the loop index of the chunk loop
  files_created,    \* the worker's files_created
  window,           \* <<source_data_start_row, source_data_end_row>> of chunk i
  wb_chunk,         \* the workbook built for chunk i
  progress_queue,   \* queue.Queue from the worker to the main thread
  cancel_event,     \* threading.Event, TRUE when set
  sent,             \* history: every event the worker put on the queue
  disk,             \* history: the files saved to the output directory
  save_attempts,    \* history: the paths wb_chunk.save was called with
  cancel_reads,     \* history: chunk indexes at which cancel_event was read
  cancel_set_at,    \* history: <<worker, i>> when cancel_event was first set
  source_row,       \* _copy_row_formatting: the cells and height of the source row
  target_row,       \* _copy_row_formatting: the cells and height of the target row
  col_idx           \* _copy_row_formatting: the next column (0: no copy going on)

rowcopy  == <<source_row, target_row, col_idx>>
inputs   == <<chunk_size, heading_arg, rowcopy>>
uivars   == <<ui, total_steps, summary>>
locals   == <<ws_source, heading_rows, num_chunks, i, files_created, window, wb_chunk>>
history  == <<sent, disk, save_attempts, cancel_reads>>
vars     == <<chunk_size, heading_arg, ui, total_steps, summary, worker, alive,
              ws_source, heading_rows, num_chunks, i, files_created, window,
              wb_chunk, progress_queue, cancel_event, sent, disk,
              save_attempts, cancel_reads, cancel_set_at,
              source_row, target_row, col_idx>>

(* ------------------------------ values -------------------------------- *)
Min(a, b) == IF a < b THEN a ELSE b
Max(a, b) == IF a > b THEN a ELSE b

\* The merged ranges a sheet of the given size can hold (more than one cell).
RangesOf(rows, cols) ==
  { m \in [min_row : 1..rows, max_row : 1..rows, min_col : 1..cols, max_col : 1..cols] :
      /\ m.min_row <= m.max_row
      /\ m.min_col <= m.max_col
      /\ (m.min_row < m.max_row \/ m.min_col < m.max_col) }

Overlap(a, b) ==
  /\ a.min_row <= b.max_row /\ b.min_row <= a.max_row
  /\ a.min_col <= b.max_col /\ b.min_col <= a.max_col

\* The sets of at most k pairwise disjoint ranges of S.
RECURSIVE MergeSets(_, _)
MergeSets(S, k) ==
  IF k = 0 THEN {{}}
  ELSE LET P == MergeSets(S, k - 1)
       IN  P \cup { p \cup {m} : <<p, m>> \in
                      { pm \in P \X S : \A a \in pm[1] : ~Overlap(a, pm[2]) } }

\* The sheets load_workbook(...).active can return within the bounds: the
\* merged ranges of a worksheet lie inside its rows and columns.
Sheets ==
  UNION { { [total_rows |-> r, max_col |-> c, merged |-> ms] :
              ms \in MergeSets(RangesOf(r, c), MaxMerge) } :
          <<r, c>> \in (0..MaxRows) \X (0..MaxCols) }

\* ws_source before load_workbook has returned: not a sheet.
NoSheet == [total_rows |-> -1, max_col |-> -1, merged |-> {}]
NoBook  == [rows |-> <<>>, merged |-> {}]

\* Events of the queue.
Message(text, arg) == [text |-> text, arg |-> arg]
Result(status, message, n) ==
  [type |-> "result", status |-> status, message |-> message, files_created |-> n]
Progress(step, status) ==
  [type |-> "progress", step |-> step, status |-> status]

(* ------------------------- the chunk planner --------------------------- *)
\* only the upper end is clamped
ClampHeadingUpperOnly(h, total_rows) == Min(h, total_rows)

\* line 212: heading_rows = max(0, min(heading_rows, total_rows))
ClampHeading(h, total_rows) == Max(0, Min(h, total_rows))

\* floor instead of ceiling division: the last, partial chunk is lost
NumChunksFloor(data_rows, cs) == data_rows \div cs

\* line 220: num_chunks = (data_rows_to_process + chunk_size - 1) // chunk_size
NumChunks(data_rows, cs) == (data_rows + cs - 1) \div cs

\* line 228
source_data_start_row(h, k, cs) == h + (k * cs) + 1

\* line 229
source_data_end_row(h, k, cs, total_rows) == Min(h + ((k + 1) * cs), total_rows)

\* line 259: the output file is named by the data window
OutputPath(w) == <<w[1], w[2]>>

(* --------------------------- the row copier ---------------------------- *)
\* lines 141-159 and 246-255: each call of _copy_row_formatting writes the
\* source row to current_target_row, which then advances by one; the book's
\* rows are the source rows in the order of their target rows.
RECURSIVE CopyRows(_, _, _)
CopyRows(rows, from, to) ==
  IF from > to THEN rows ELSE CopyRows(Append(rows, from), from + 1, to)

\* every range that touches [min_row, max_row] is merged
copy_merged_cells_touching(merged, min_row, max_row) ==
  { m \in merged : m.max_row >= min_row /\ m.min_row <= max_row }

\* lines 161-177: the source ranges fully inside [min_row, max_row] are merged
\* on the target under their own coordinates, str(merged_range).
copy_merged_cells(merged, min_row, max_row) ==
  { m \in merged : m.min_row >= min_row /\ m.max_row <= max_row }

\* current_target_row does not advance in the header loop: every header row
\* is written to target row 1
BuildChunkHeaderOnRowOne(ws, h, w) ==
  LET head == IF h > 0 THEN <<h>> ELSE <<>>
      hm   == IF h > 0 THEN copy_merged_cells(ws.merged, 1, h) ELSE {}
  IN  [rows   |-> CopyRows(head, w[1], w[2]),
       merged |-> hm \cup copy_merged_cells(ws.merged, w[1], w[2])]

\* lines 234-257: the workbook of one chunk.
BuildChunk(ws, h, w) ==
  LET head == IF h > 0 THEN CopyRows(<<>>, 1, h) ELSE <<>>
      hm   == IF h > 0 THEN copy_merged_cells(ws.merged, 1, h) ELSE {}
  IN  [rows   |-> CopyRows(head, w[1], w[2]),
       merged |-> hm \cup copy_merged_cells(ws.merged, w[1], w[2])]

(* --------------------------- the cell copier --------------------------- *)
\* A cell: its value, its style (0: the default style, has_style is False;
\* font, border, fill, number_format, protection and alignment are copied
\* together and stand here as one bundle), its hyperlink and its comment
\* (0: None).
Cells == [value : 0..MaxAttr, style : 0..MaxAttr, hyperlink : 0..MaxAttr, comment : 0..MaxAttr]

\* ws_target.cell(row, column) of a new workbook.
BlankCell == [value |-> 0, style |-> 0, hyperlink |-> 0, comment |-> 0]

\* A row: its cells in columns 1..max_col and its height (0: the row has no
\* entry in row_dimensions / no height set).
RowsOfCells ==
  UNION { [cells : [1..c -> Cells], height : 0..1] : c \in 1..MaxCols }

BlankRow(c) == [cells |-> [k \in 1..c |-> BlankCell], height |-> 0]
NoRow == [cells |-> <<>>, height |-> 0]

\* the comment is not copied
copy_cell_properties_no_comment(source_cell, target_cell) ==
  [value     |-> source_cell.value,
   style     |-> IF source_cell.style # 0 THEN source_cell.style ELSE target_cell.style,
   hyperlink |-> IF source_cell.hyperlink # 0 THEN source_cell.hyperlink
                                              ELSE target_cell.hyperlink,
   comment   |-> target_cell.comment]

\* lines 120-139: the target cell after _copy_cell_properties.
copy_cell_properties(source_cell, target_cell) ==
  [value     |-> source_cell.value,
   style     |-> IF source_cell.style # 0 THEN source_cell.style ELSE target_cell.style,
   hyperlink |-> IF source_cell.hyperlink # 0 THEN source_cell.hyperlink
                                              ELSE target_cell.hyperlink,
   comment   |-> IF source_cell.comment # 0 THEN source_cell.comment
                                            ELSE target_cell.comment]

\* line 155 calls _copy_cell_properties for every cell; the worker has no
\* copy_method parameter (line 179) and the module no style cache.
CopyMethods == {"standard"}

(* ------------------------------- Init ---------------------------------- *)
\* App.get_user_input has returned True: askinteger(minvalue=1) gave
\* chunk_size and askinteger(minvalue=0) gave heading_rows (lines 299-302);
\* App.run is about to call start_processing (line 407).
Init ==
  /\ chunk_size \in 1..MaxChunk
  /\ heading_arg \in 0..MaxHead
  /\ ui = "start_processing"
  /\ total_steps = 0
  /\ summary = <<>>
  /\ worker = "not_started"
  /\ alive = FALSE
  /\ ws_source = NoSheet
  /\ heading_rows = heading_arg
  /\ num_chunks = 0
  /\ i = 0
  /\ files_created = 0
  /\ window = <<0, 0>>
  /\ wb_chunk = NoBook
  /\ progress_queue = <<>>
  /\ cancel_event = FALSE
  /\ sent = <<>>
  /\ disk = <<>>
  /\ save_attempts = <<>>
  /\ cancel_reads = <<>>
  /\ cancel_set_at = <<>>
  /\ source_row = NoRow
  /\ target_row = NoRow
  /\ col_idx = 0

(* --------------------------- the worker thread ------------------------- *)
\* progress_queue.put(event)
Put(event) ==
  /\ progress_queue' = Append(progress_queue, event)
  /\ sent' = Append(sent, event)

\* the result is put but the function does not return
PutResultNoReturn(result) ==
  /\ Put(result)
  /\ worker' = worker

\* put the terminal result and return from the worker function
PutResultAndReturn(result) ==
  /\ Put(result)
  /\ worker' = "returned"

\* the except clause reports but falls through to the scan
LoadFailsFallsThrough ==
  /\ worker = "load"
  /\ Put(Result("error", Message("Error loading Excel file", <<>>), 0))
  /\ worker' = "scan"
  /\ UNCHANGED <<inputs, uivars, alive, locals, cancel_event, disk, save_attempts,
                 cancel_reads, cancel_set_at>>

\* lines 196-203: load_workbook raises; the except clause reports and returns.
LoadFails ==
  /\ worker = "load"
  /\ PutResultAndReturn(Result("error", Message("Error loading Excel file", <<>>), 0))
  /\ UNCHANGED <<inputs, uivars, alive, locals, cancel_event, disk, save_attempts,
                 cancel_reads,
                 cancel_set_at>>

\* lines 196-199, 205: the workbook loads; total_rows, max_col are read.
LoadSucceeds ==
  /\ worker = "load"
  /\ \E s \in Sheets : ws_source' = s
  /\ worker' = "scan"
  /\ UNCHANGED <<inputs, uivars, alive, heading_rows, num_chunks, i, files_created,
                 window, wb_chunk, progress_queue, cancel_event, history,
                 cancel_set_at>>

\* only the row count is tested
IsEmptyRowsOnly(ws) == ws.total_rows = 0

\* line 207
IsEmpty(ws) == ws.total_rows = 0 \/ ws.max_col = 0

\* lines 207-210
EmptySheet ==
  /\ worker = "scan"
  /\ IsEmpty(ws_source)
  /\ PutResultAndReturn(Result("success", Message("Input file's active sheet was empty.", <<>>), 0))
  /\ UNCHANGED <<inputs, uivars, alive, locals, cancel_event, disk, save_attempts,
                 cancel_reads,
                 cancel_set_at>>

\* lines 212-218: after the clamp no data row is left.
AllHeaders ==
  /\ worker = "scan"
  /\ ~IsEmpty(ws_source)
  /\ heading_rows' = ClampHeading(heading_rows, ws_source.total_rows)
  /\ ws_source.total_rows - heading_rows' <= 0
  /\ PutResultAndReturn(Result("success", Message("All rows were headers. One file created.", <<>>), 1))
  /\ UNCHANGED <<inputs, uivars, alive, ws_source, num_chunks, i, files_created, window,
                 wb_chunk, cancel_event, disk, save_attempts, cancel_reads,
                 cancel_set_at>>

\* lines 212-220: the plan; the loop starts at i = 0.
PlanChunks ==
  /\ worker = "scan"
  /\ ~IsEmpty(ws_source)
  /\ heading_rows' = ClampHeading(heading_rows, ws_source.total_rows)
  /\ ws_source.total_rows - heading_rows' > 0
  /\ num_chunks' = NumChunks(ws_source.total_rows - heading_rows', chunk_size)
  /\ i' = 0
  /\ worker' = "loop"
  /\ UNCHANGED <<inputs, uivars, alive, ws_source, files_created, window, wb_chunk,
                 progress_queue, cancel_event, history,
                 cancel_set_at>>

\* the chunk being cancelled is counted as created
CancelledCountsChunk ==
  /\ worker = "loop"
  /\ i < num_chunks
  /\ cancel_event
  /\ cancel_reads' = Append(cancel_reads, i)
  /\ PutResultAndReturn(Result("cancelled", Message("Operation cancelled.", <<>>), i + 1))
  /\ UNCHANGED <<inputs, uivars, alive, locals, cancel_event, disk, save_attempts,
                 cancel_set_at>>

\* lines 222-226: the boundary check of chunk i finds the flag set.
Cancelled ==
  /\ worker = "loop"
  /\ i < num_chunks
  /\ cancel_event
  /\ cancel_reads' = Append(cancel_reads, i)
  /\ PutResultAndReturn(Result("cancelled", Message("Operation cancelled.", <<>>), files_created))
  /\ UNCHANGED <<inputs, uivars, alive, locals, cancel_event, disk, save_attempts,
                 cancel_set_at>>

\* the loop index itself is reported as the step
StepOfIndex(k) == k

\* line 232: 'step': i + 1
StepOf(k) == k + 1

\* lines 222-232: the boundary check of chunk i passes; the window is
\* computed and the progress event of the chunk is put.
StartChunk ==
  /\ worker = "loop"
  /\ i < num_chunks
  /\ ~cancel_event
  /\ cancel_reads' = Append(cancel_reads, i)
  /\ window' = << source_data_start_row(heading_rows, i, chunk_size),
                  source_data_end_row(heading_rows, i, chunk_size, ws_source.total_rows) >>
  /\ Put(Progress(StepOf(i), <<i + 1, num_chunks, window'[1], window'[2]>>))
  /\ worker' = "build"
  /\ UNCHANGED <<inputs, uivars, alive, ws_source, heading_rows, num_chunks, i,
                 files_created, wb_chunk, cancel_event, disk, save_attempts,
                 cancel_set_at>>

\* the flag is read again after the build
BuildThenChecksCancel ==
  /\ worker = "build"
  /\ wb_chunk' = BuildChunk(ws_source, heading_rows, window)
  /\ IF cancel_event
       THEN PutResultAndReturn(Result("cancelled", Message("Operation cancelled.", <<>>), files_created))
       ELSE /\ worker' = "save"
            /\ UNCHANGED <<progress_queue, sent>>
  /\ UNCHANGED <<inputs, uivars, alive, ws_source, heading_rows, num_chunks, i,
                 files_created, window, cancel_event, disk, save_attempts, cancel_reads,
                 cancel_set_at>>

\* lines 234-260: the chunk's workbook is built.
Build ==
  /\ worker = "build"
  /\ wb_chunk' = BuildChunk(ws_source, heading_rows, window)
  /\ worker' = "save"
  /\ UNCHANGED <<inputs, uivars, alive, ws_source, heading_rows, num_chunks, i,
                 files_created, window, progress_queue, cancel_event, history,
                 cancel_set_at>>

\* lines 234-260 stand outside every try: an exception raised there (by the
\* library, or MemoryError) ends the thread with no event put.
BuildRaises ==
  /\ worker = "build"
  /\ worker' = "crashed"
  /\ UNCHANGED <<inputs, uivars, alive, locals, progress_queue, cancel_event, history,
                 cancel_set_at>>

\* the file is saved but not counted
SaveSucceedsNoCount ==
  /\ worker = "save"
  /\ save_attempts' = Append(save_attempts, OutputPath(window))
  /\ disk' = Append(disk, [path |-> OutputPath(window), book |-> wb_chunk])
  /\ i' = i + 1
  /\ worker' = "loop"
  /\ UNCHANGED <<inputs, uivars, alive, ws_source, heading_rows, num_chunks, window,
                 wb_chunk, files_created, progress_queue, cancel_event, sent,
                 cancel_reads, cancel_set_at>>

\* lines 261-263: the save succeeds; the loop goes to the next index.
SaveSucceeds ==
  /\ worker = "save"
  /\ save_attempts' = Append(save_attempts, OutputPath(window))
  /\ disk' = Append(disk, [path |-> OutputPath(window), book |-> wb_chunk])
  /\ files_created' = files_created + 1
  /\ i' = i + 1
  /\ worker' = "loop"
  /\ UNCHANGED <<inputs, uivars, alive, ws_source, heading_rows, num_chunks, window,
                 wb_chunk, progress_queue, cancel_event, sent, cancel_reads,
                 cancel_set_at>>

\* the failed save is reported but the loop goes on with the next chunk
SaveFailsContinues ==
  /\ worker = "save"
  /\ save_attempts' = Append(save_attempts, OutputPath(window))
  /\ Put(Result("error", Message("Error saving", OutputPath(window)), files_created))
  /\ i' = i + 1
  /\ worker' = "loop"
  /\ UNCHANGED <<inputs, uivars, alive, ws_source, heading_rows, num_chunks,
                 files_created, window, wb_chunk, cancel_event, disk, cancel_reads,
                 cancel_set_at>>

\* lines 264-267: the save raises; the except clause reports and returns.
SaveFails ==
  /\ worker = "save"
  /\ save_attempts' = Append(save_attempts, OutputPath(window))
  /\ PutResultAndReturn(Result("error", Message("Error saving", OutputPath(window)), files_created))
  /\ UNCHANGED <<inputs, uivars, alive, locals, cancel_event, disk, cancel_reads,
                 cancel_set_at>>

\* lines 269-270: the loop is exhausted.
LoopDone ==
  /\ worker = "loop"
  /\ i >= num_chunks
  /\ PutResultAndReturn(Result("success", Message("Successfully created files", <<files_created>>), files_created))
  /\ UNCHANGED <<inputs, uivars, alive, locals, cancel_event, disk, save_attempts,
                 cancel_reads,
                 cancel_set_at>>

\* The thread ends once its target has returned or raised.
ThreadEnds ==
  /\ worker \in {"returned", "crashed"}
  /\ alive
  /\ alive' = FALSE
  /\ UNCHANGED <<inputs, uivars, worker, locals, progress_queue, cancel_event, history,
                 cancel_set_at>>

(* ---------------------------- the main thread -------------------------- *)
\* line 329: the pre-scan's chunk count, from the unclamped heading_rows.
NumChunksCheck(total_rows_check, h, cs) ==
  LET data_rows_check == total_rows_check - h
  IN  IF data_rows_check > 0 THEN (data_rows_check + cs - 1) \div cs ELSE 0

\* lines 324-332: the pre-scan cannot read the file; start_processing returns
\* and the main loop goes on with no timer pending.
PreScanFails ==
  /\ ui = "start_processing"
  /\ ui' = "mainloop"
  /\ UNCHANGED <<inputs, total_steps, summary, worker, alive, locals, progress_queue,
                 cancel_event, history,
                 cancel_set_at>>

\* lines 324-336: the pre-scan finds no chunk; start_processing returns.
NothingToProcess ==
  /\ ui = "start_processing"
  /\ \E total_rows_check \in 0..MaxRows :
       NumChunksCheck(total_rows_check, heading_arg, chunk_size) = 0
  /\ ui' = "mainloop"
  /\ UNCHANGED <<inputs, total_steps, summary, worker, alive, locals, progress_queue,
                 cancel_event, history,
                 cancel_set_at>>

\* lines 324-352: the progress window is made, the worker thread started and
\* check_queue scheduled.
StartWorker ==
  /\ ui = "start_processing"
  /\ \E total_rows_check \in 0..MaxRows :
       /\ NumChunksCheck(total_rows_check, heading_arg, chunk_size) # 0
       /\ total_steps' = NumChunksCheck(total_rows_check, heading_arg, chunk_size)
  /\ worker' = "load"
  /\ alive' = TRUE
  /\ ui' = "timer"
  /\ UNCHANGED <<inputs, summary, locals, progress_queue, cancel_event, history,
                 cancel_set_at>>

\* lines 371-400: the summary is shown and the root window destroyed.
on_task_finished(result) ==
  /\ summary' = Append(summary, result)
  /\ ui' = "destroyed"

\* line 369
TerminatedUnexpectedly ==
  Result("error", Message("The worker thread terminated unexpectedly.", <<>>), "Unknown")

\* lines 356-364: the first half of a tick: one get(block=False).
CheckQueueGet ==
  /\ ui = "timer"
  /\ IF progress_queue = <<>>
       THEN /\ ui' = "is_alive"
            /\ UNCHANGED <<progress_queue, summary>>
       ELSE /\ progress_queue' = Tail(progress_queue)
            /\ IF Head(progress_queue).type = "result"
                 THEN on_task_finished(Head(progress_queue))
                 ELSE /\ ui' = "is_alive"
                      /\ UNCHANGED summary
  /\ UNCHANGED <<inputs, total_steps, worker, alive, locals, cancel_event, history,
                 cancel_set_at>>

\* with the worker alive the timer is not armed again
CheckQueueAliveNoReschedule ==
  /\ ui = "is_alive"
  /\ IF alive
       THEN /\ ui' = "mainloop"
            /\ UNCHANGED summary
       ELSE on_task_finished(TerminatedUnexpectedly)
  /\ UNCHANGED <<inputs, total_steps, worker, alive, locals, progress_queue,
                 cancel_event, history, cancel_set_at>>

\* lines 366-369: the second half of a tick: reschedule or give up.
CheckQueueAlive ==
  /\ ui = "is_alive"
  /\ IF alive
       THEN /\ ui' = "timer"
            /\ UNCHANGED summary
       ELSE on_task_finished(TerminatedUnexpectedly)
  /\ UNCHANGED <<inputs, total_steps, worker, alive, locals, progress_queue,
                 cancel_event, history,
                 cancel_set_at>>

\* lines 110-113: the Cancel button or the window's close box, handled by the
\* main loop between two callbacks while the progress window exists.
request_cancel ==
  /\ ui = "timer"
  /\ cancel_event' = TRUE
  /\ cancel_set_at' = IF cancel_event THEN cancel_set_at ELSE <<worker, i>>
  /\ UNCHANGED <<inputs, uivars, worker, alive, locals, progress_queue, history>>

(* ------------------------ _copy_row_formatting ------------------------- *)
\* The worker's other variables, which a row copy leaves alone.
appvars == <<chunk_size, heading_arg, ui, total_steps, summary, worker, alive,
             ws_source, heading_rows, num_chunks, i, files_created, window,
             wb_chunk, progress_queue, cancel_event, sent, disk,
             save_attempts, cancel_reads, cancel_set_at>>

\* _copy_row_formatting is called (lines 249, 254) with a source row and the
\* blank row current_target_row of the chunk's new sheet.
CopyInit ==
  /\ chunk_size = 1
  /\ heading_arg = 0
  /\ ui = "start_processing"
  /\ total_steps = 0
  /\ summary = <<>>
  /\ worker = "build"
  /\ alive = TRUE
  /\ ws_source = NoSheet
  /\ heading_rows = 0
  /\ num_chunks = 0
  /\ i = 0
  /\ files_created = 0
  /\ window = <<0, 0>>
  /\ wb_chunk = NoBook
  /\ progress_queue = <<>>
  /\ cancel_event = FALSE
  /\ sent = <<>>
  /\ disk = <<>>
  /\ save_attempts = <<>>
  /\ cancel_reads = <<>>
  /\ cancel_set_at = <<>>
  /\ source_row \in RowsOfCells
  /\ target_row = BlankRow(Len(source_row.cells))
  /\ col_idx = 1

\* lines 152-155: one turn of the column loop.
CopyCell ==
  /\ col_idx >= 1
  /\ col_idx <= Len(source_row.cells)
  /\ target_row' = [target_row EXCEPT !.cells[col_idx] =
                      copy_cell_properties(source_row.cells[col_idx], @)]
  /\ col_idx' = col_idx + 1
  /\ UNCHANGED <<source_row, appvars>>

\* lines 156-159: the row height, after the column loop.
CopyHeight ==
  /\ col_idx = Len(source_row.cells) + 1
  /\ target_row' = IF source_row.height # 0
                     THEN [target_row EXCEPT !.height = source_row.height]
                     ELSE target_row
  /\ col_idx' = col_idx + 1
  /\ UNCHANGED <<source_row, appvars>>

CopyNext == CopyCell \/ CopyHeight

CopySpec == CopyInit /\ [][CopyNext]_vars

(* --------------------------- specification ----------------------------- *)
Next ==
  \/ PreScanFails
  \/ NothingToProcess
  \/ StartWorker
  \/ CheckQueueGet
  \/ CheckQueueAlive
  \/ request_cancel
  \/ LoadFails
  \/ LoadSucceeds
  \/ EmptySheet
  \/ AllHeaders
  \/ PlanChunks
  \/ Cancelled
  \/ StartChunk
  \/ Build
  \/ BuildRaises
  \/ SaveSucceeds
  \/ SaveFails
  \/ LoopDone
  \/ ThreadEnds

Spec == Init /\ [][Next]_vars

\* The steps of the worker thread.
WorkerStep ==
  \/ LoadFails \/ LoadSucceeds \/ EmptySheet \/ AllHeaders \/ PlanChunks
  \/ Cancelled \/ StartChunk \/ Build \/ BuildRaises \/ SaveSucceeds \/ SaveFails
  \/ LoopDone \/ ThreadEnds

\* The body of start_processing, called by App.run (line 407).
StartProcessing == PreScanFails \/ NothingToProcess \/ StartWorker

\* Scheduling: start_processing runs to its end, the worker thread keeps
\* running until its function has returned or raised, and a timer armed by
\* root.after(100, self.check_queue) fires and its callback runs to its end.
\* Nothing obliges the user to press Cancel.
FairSpec ==
  /\ Init /\ [][Next]_vars
  /\ WF_vars(StartProcessing)
  /\ WF_vars(WorkerStep)
  /\ WF_vars(CheckQueueGet)
  /\ WF_vars(CheckQueueAlive)

(* --------------------------- App.get_user_input ------------------------ *)
\* line 54
MAX_ROW == 1048576

\* What the user may type in the two askinteger dialogs (lines 299, 301).
ChunkEntries == (0..MaxChunk) \cup {MAX_ROW + 1}
HeadEntries == (0..MaxHead) \cup {MAX_ROW + 1}

\* simpledialog.askinteger(..., minvalue = m) takes an entry iff it is >= m;
\* no maxvalue is passed on lines 299 and 301.
askinteger_accepts(entry, minvalue) == entry >= minvalue

\* The dialogs are open; chunk_size and heading_arg hold what is typed in.
InputInit ==
  /\ chunk_size \in ChunkEntries
  /\ heading_arg \in HeadEntries
  /\ ui = "get_user_input"
  /\ total_steps = 0
  /\ summary = <<>>
  /\ worker = "not_started"
  /\ alive = FALSE
  /\ ws_source = NoSheet
  /\ heading_rows = heading_arg
  /\ num_chunks = 0
  /\ i = 0
  /\ files_created = 0
  /\ window = <<0, 0>>
  /\ wb_chunk = NoBook
  /\ progress_queue = <<>>
  /\ cancel_event = FALSE
  /\ sent = <<>>
  /\ disk = <<>>
  /\ save_attempts = <<>>
  /\ cancel_reads = <<>>
  /\ cancel_set_at = <<>>
  /\ source_row = NoRow
  /\ target_row = NoRow
  /\ col_idx = 0

\* askinteger refuses an entry below minvalue and stays open: the user types
\* again.
EntryRefused ==
  /\ ui = "get_user_input"
  /\ ~ (askinteger_accepts(chunk_size, 1) /\ askinteger_accepts(heading_arg, 0))
  /\ chunk_size' \in ChunkEntries
  /\ heading_arg' \in HeadEntries
  /\ heading_rows' = heading_arg'
  /\ UNCHANGED <<rowcopy, uivars, worker, alive, ws_source, num_chunks, i,
                 files_created, window, wb_chunk, progress_queue, cancel_event,
                 history, cancel_set_at>>

\* lines 293, 296, 300, 302, 409-410: a dialog is cancelled, run() destroys
\* the root window.
SetupCancelled ==
  /\ ui = "get_user_input"
  /\ ui' = "destroyed"
  /\ UNCHANGED <<inputs, total_steps, summary, worker, alive, locals,
                 progress_queue, cancel_event, history, cancel_set_at>>

\* lines 299-312, 406-407: both entries are taken, run() calls
\* start_processing.
InputAccepted ==
  /\ ui = "get_user_input"
  /\ askinteger_accepts(chunk_size, 1)
  /\ askinteger_accepts(heading_arg, 0)
  /\ ui' = "start_processing"
  /\ UNCHANGED <<inputs, total_steps, summary, worker, alive, locals,
                 progress_queue, cancel_event, history, cancel_set_at>>

InputNext ==
  \/ EntryRefused
  \/ SetupCancelled
  \/ InputAccepted
  \/ Next

InputSpec == InputInit /\ [][InputNext]_vars

\* split_excel_file_with_formatting called on its own (lines 179-192): any
\* integer heading_rows, a chunk_size >= 1, the caller's cancel_event set or
\* not; there is no App and no main thread.
EngineInit ==
  /\ chunk_size \in 1..MaxChunk
  /\ heading_arg \in (0 - MaxHead)..MaxHead
  /\ ui = "no_app"
  /\ total_steps = 0
  /\ summary = <<>>
  /\ worker = "load"
  /\ alive = TRUE
  /\ ws_source = NoSheet
  /\ heading_rows = heading_arg
  /\ num_chunks = 0
  /\ i = 0
  /\ files_created = 0
  /\ window = <<0, 0>>
  /\ wb_chunk = NoBook
  /\ progress_queue = <<>>
  /\ cancel_event \in BOOLEAN
  /\ sent = <<>>
  /\ disk = <<>>
  /\ save_attempts = <<>>
  /\ cancel_reads = <<>>
  /\ cancel_set_at = IF cancel_event THEN <<"not_started", 0>> ELSE <<>>
  /\ source_row = NoRow
  /\ target_row = NoRow
  /\ col_idx = 0

\* The caller holds the threading.Event it passed as cancel_event (line 192)
\* and may set it at any moment of the run.
CallerSetsCancel ==
  /\ ui = "no_app"
  /\ alive
  /\ ~cancel_event
  /\ cancel_event' = TRUE
  /\ cancel_set_at' = <<worker, i>>
  /\ UNCHANGED <<inputs, uivars, worker, alive, locals, progress_queue, history>>

EngineNext ==
  \/ CallerSetsCancel
  \/ WorkerStep

EngineSpec == EngineInit /\ [][EngineNext]_vars

(* ------------------------------ claims --------------------------------- *)
Last(q) == q[Len(q)]
IsResult(e) == e.type = "result"
ResultsSent == SelectSeq(sent, IsResult)
ProgressSent == SelectSeq(sent, LAMBDA e : e.type = "progress")

\* The worker has planned its chunks (num_chunks is set by PlanChunks only).
Planned == num_chunks > 0

\* The window the worker computes for loop index k (lines 228-229).
PlanWindow(k) ==
  << source_data_start_row(heading_rows, k, chunk_size),
     source_data_end_row(heading_rows, k, chunk_size, ws_source.total_rows) >>

\* The plan of lines 212-229, which no later step changes: exactly
\* ceil(data_rows / chunk_size) windows, each non-empty, the first starting
\* at heading_rows + 1, each next one starting right after the one before,
\* the last ending at total_rows, pairwise disjoint, their union the data rows.
PlanIsPartition ==
  LET data_rows == ws_source.total_rows - heading_rows
      n == num_chunks
      W == [k \in 0..(n - 1) |-> PlanWindow(k)]
  IN  /\ data_rows > 0
      /\ (n - 1) * chunk_size < data_rows /\ data_rows <= n * chunk_size
      /\ \A k \in 0..(n - 1) : W[k][1] <= W[k][2]
      /\ W[0][1] = heading_rows + 1
      /\ W[n - 1][2] = ws_source.total_rows
      /\ \A k \in 0..(n - 2) : W[k + 1][1] = W[k][2] + 1
      /\ \A k \in 0..(n - 1) : \A l \in 0..(n - 1) :
           k # l => (W[k][1]..W[k][2]) \cap (W[l][1]..W[l][2]) = {}
      /\ UNION { W[k][1]..W[k][2] : k \in 0..(n - 1) }
           = (heading_rows + 1)..ws_source.total_rows

\* C1: with data_rows = total_rows - heading_rows > 0 the worker plans exactly
\* ceil(data_rows / chunk_size) chunks; the windows it computes are non-empty,
\* start at heading_rows + 1, follow one another without gap or overlap, end
\* at total_rows, and cover exactly the data rows (stated at every chunk
\* boundary); the windows the worker announced and saved are these, in order.
C1_ChunkPlan ==
  Planned =>
    LET ps == ProgressSent
    IN  /\ (worker = "loop") => PlanIsPartition
        /\ Len(ps) <= num_chunks
        /\ \A k \in 1..Len(ps) :
             ps[k].status = <<k, num_chunks, PlanWindow(k - 1)[1], PlanWindow(k - 1)[2]>>
        /\ \A k \in 1..Len(disk) : disk[k].path = PlanWindow(k - 1)

\* C1 witness: a finished run of at least two chunks whose last window is
\* shorter than chunk_size, with headers present.
C1_Witness ==
  /\ worker = "returned"
  /\ num_chunks >= 2
  /\ Len(disk) = num_chunks
  /\ heading_rows >= 1
  /\ Last(disk).path[2] - Last(disk).path[1] + 1 < chunk_size

\* The merged range m moved up by offset rows, columns unchanged.
Reanchor(m, offset) ==
  [m EXCEPT !.min_row = m.min_row - offset, !.max_row = m.max_row - offset]

\* C2: every source merged range fully inside a chunk's data window is on
\* that chunk's sheet re-anchored by offset = start - (heading_rows + 1),
\* columns unchanged, and no merge of the sheet reaches below its last row.
C2_MergesReanchored ==
  \A k \in 1..Len(disk) :
    LET start  == disk[k].path[1]
        end    == disk[k].path[2]
        offset == start - (heading_rows + 1)
        book   == disk[k].book
    IN  /\ \A m \in ws_source.merged :
             (m.min_row >= start /\ m.max_row <= end)
               => Reanchor(m, offset) \in book.merged
        /\ \A t \in book.merged : t.max_row <= heading_rows + (end - start + 1)

\* C3: the files_created of every terminal result is the number of files
\* saved in the run; with no data row after the clamped headers the result is
\* a success with files_created = 1 and one file has been written.
C3_FilesCreatedIsFilesSaved ==
  \A k \in 1..Len(sent) :
    IsResult(sent[k]) =>
      /\ sent[k].files_created = Len(disk)
      /\ (sent[k].message.text = "All rows were headers. One file created.")
           => (sent[k].status = "success" /\ sent[k].files_created = 1 /\ Len(disk) = 1)

\* C4: the main thread shows 'The worker thread terminated unexpectedly' only
\* if the worker put no result on the queue; once the worker has put a
\* result, the summary shown is that result.
C4_SyntheticErrorOnlyWithoutResult ==
  \A k \in 1..Len(summary) :
    /\ (summary[k].message = TerminatedUnexpectedly.message) => ResultsSent = <<>>
    /\ (ResultsSent # <<>>) => summary[k].message = ResultsSent[1].message

\* C5: a run that ends through a handled outcome has put exactly one result
\* on the queue, and that result is the last event the worker put; before
\* the worker function returns no result has been put.
C5_ExactlyOneResultLast ==
  /\ \A k \in 1..Len(sent) : IsResult(sent[k]) => k = Len(sent)
  /\ (worker = "returned") => (sent # <<>> /\ IsResult(Last(sent)) /\ Len(ResultsSent) = 1)
  /\ (worker # "returned") => ResultsSent = <<>>

\* C5 witness: a run that announced two chunks and then ended by a handled
\* outcome, its single result behind the progress events.
C5_Witness ==
  /\ worker = "returned"
  /\ Len(sent) = 3
  /\ IsResult(sent[3])
  /\ ~IsResult(sent[1]) /\ ~IsResult(sent[2])

\* The last event the worker put is a result of the given status.
EndedWith(status) ==
  sent # <<>> /\ IsResult(Last(sent)) /\ Last(sent).status = status

\* What holds of a run that was cancelled at the boundary check of chunk k
\* (loop index k - 1, the last index at which the flag was read).
C6_AfterCancel ==
  EndedWith("cancelled") =>
    LET k == Last(cancel_reads) + 1
    IN  /\ worker = "returned"
        /\ Last(sent).files_created = k - 1
        /\ Len(disk) = k - 1
        /\ \A j \in 1..(k - 1) : disk[j].path = PlanWindow(j - 1)
        /\ Len(save_attempts) = k - 1
        /\ Len(ProgressSent) = k - 1
        /\ \A j \in 1..Len(ProgressSent) : ProgressSent[j].step <= k - 1

\* C6: when the flag is set as the worker performs the boundary check of
\* chunk k = i + 1, the worker's step puts the result 'cancelled' with
\* files_created = k - 1 and returns, saving nothing; from then on exactly
\* the files of chunks 1..k-1 are saved and no progress event or save
\* attempt of chunk k or a later chunk exists.
C6_CancelBeforeChunk ==
  [][ /\ (worker = "loop" /\ i < num_chunks /\ cancel_event /\ worker' # "loop")
          => /\ worker' = "returned"
             /\ sent' = Append(sent, Result("cancelled", Message("Operation cancelled.", <<>>), i))
             /\ disk' = disk
             /\ save_attempts' = save_attempts
      /\ C6_AfterCancel' ]_vars

\* C6 witness: a run of at least three chunks cancelled before its second.
C6_Witness ==
  /\ EndedWith("cancelled")
  /\ num_chunks >= 3
  /\ Last(sent).files_created = 1
  /\ Len(disk) = 1

\* The flag was first set while chunk k (loop index k - 1) was past its
\* boundary check and not yet saved.
SetMidChunk == cancel_set_at # <<>> /\ cancel_set_at[1] \in {"build", "save"}

\* The flag was first set after the boundary check of the last chunk.
SetAfterLastCheck ==
  /\ cancel_set_at # <<>>
  /\ Planned
  /\ \/ cancel_set_at[1] \in {"build", "save"} /\ cancel_set_at[2] = num_chunks - 1
     \/ cancel_set_at[1] = "loop" /\ cancel_set_at[2] = num_chunks

\* The flag is read at chunk boundaries only: a 'cancelled' result never
\* follows a chunk's progress event without that chunk's save attempt, and a
\* flag set while chunk k is in progress takes effect at a later boundary.
C7_BoundaryOnly ==
  /\ \A k \in 2..Len(sent) :
       (IsResult(sent[k]) /\ sent[k].status = "cancelled" /\ ~IsResult(sent[k - 1]))
         => Len(save_attempts) >= sent[k - 1].step
  /\ (SetMidChunk /\ worker = "returned") => Len(save_attempts) >= cancel_set_at[2] + 1
  /\ (SetMidChunk /\ EndedWith("cancelled")) => Last(cancel_reads) > cancel_set_at[2]
  /\ Len(cancel_reads) <= Len(ProgressSent) + 1

\* C7 as stated: the flag is read at chunk boundaries only, and a flag first
\* set after the last chunk's boundary check yields a 'success' result with
\* all num_chunks files.
C7_Original ==
  /\ C7_BoundaryOnly
  /\ (SetAfterLastCheck /\ worker = "returned")
       => /\ EndedWith("success")
          /\ Last(sent).files_created = num_chunks
          /\ Len(disk) = num_chunks

\* C7 amended: the flag is read at chunk boundaries only, and a flag first
\* set after the last chunk's boundary check never yields 'cancelled': the
\* result is 'success' with all num_chunks files when the last save
\* succeeds, and the 'error' of the failed last save otherwise.
C7_Amended ==
  /\ C7_BoundaryOnly
  /\ (SetAfterLastCheck /\ worker = "returned")
       => /\ ~EndedWith("cancelled")
          /\ IF Len(disk) = num_chunks
               THEN EndedWith("success") /\ Last(sent).files_created = num_chunks
               ELSE /\ EndedWith("error")
                    /\ Last(sent).message = Message("Error saving", PlanWindow(num_chunks - 1))
                    /\ Len(disk) = num_chunks - 1

\* C7 witness: the flag was set while the last of at least two chunks was
\* being built, and the run ended in success with every file.
C7_Witness ==
  /\ worker = "returned"
  /\ num_chunks >= 2
  /\ cancel_set_at = <<"build", num_chunks - 1>>
  /\ EndedWith("success")
  /\ Len(disk) = num_chunks

\* C8: once the save of chunk k has failed (an attempt without a file), the
\* worker has returned with the single result 'error' whose files_created is
\* k - 1 and whose message names the failing path; the failing path was
\* tried once, chunk k is the last chunk announced, and the k - 1 files saved
\* before are in place.
C8_SaveFailureEndsRun ==
  (Len(save_attempts) > Len(disk)) =>
    LET k == Len(save_attempts)
    IN  /\ worker = "returned"
        /\ Len(disk) = k - 1
        /\ ResultsSent = << Result("error", Message("Error saving", Last(save_attempts)), k - 1) >>
        /\ IsResult(Last(sent))
        /\ Last(save_attempts) = PlanWindow(k - 1)
        /\ \A a \in 1..k : \A b \in 1..k : a # b => save_attempts[a] # save_attempts[b]
        /\ Len(ProgressSent) = k
        /\ \A j \in 1..(k - 1) : disk[j].path = save_attempts[j]
        /\ \A j \in 1..(k - 1) : disk[j].book = BuildChunk(ws_source, heading_rows, PlanWindow(j - 1))

\* C8 witness: the save of the second of at least three chunks failed.
C8_Witness ==
  /\ Len(save_attempts) = 2
  /\ Len(disk) = 1
  /\ num_chunks >= 3
  /\ EndedWith("error")

\* C9: once the load has failed, the queue has received exactly one event,
\* the result 'error' with files_created = 0; the worker has returned, the
\* flag was never read, no chunk was built and nothing was saved.
C9_LoadFailure ==
  (\E k \in 1..Len(sent) :
      IsResult(sent[k]) /\ sent[k].message.text = "Error loading Excel file") =>
    /\ sent = << Result("error", Message("Error loading Excel file", <<>>), 0) >>
    /\ worker = "returned"
    /\ cancel_reads = <<>>
    /\ wb_chunk = NoBook
    /\ disk = <<>>
    /\ save_attempts = <<>>

\* C9 witness: the load failed after the user had asked to cancel.
C9_Witness ==
  /\ EndedWith("error")
  /\ Last(sent).message.text = "Error loading Excel file"
  /\ cancel_event
  /\ cancel_set_at = <<"load", 0>>

\* C10: once an empty sheet (total_rows = 0 or max_col = 0) has been
\* scanned, the queue has received exactly one event, the result 'success'
\* with files_created = 0; no chunk was planned, announced, built or saved.
C10_EmptySheet ==
  ((ws_source.total_rows = 0 \/ ws_source.max_col = 0) /\ worker # "scan") =>
    /\ sent = << Result("success", Message("Input file's active sheet was empty.", <<>>), 0) >>
    /\ worker = "returned"
    /\ num_chunks = 0
    /\ cancel_reads = <<>>
    /\ wb_chunk = NoBook
    /\ disk = <<>>
    /\ save_attempts = <<>>

\* C10 witness: a sheet with rows but no column, the largest heading_rows
\* and chunk_size.
C10_Witness ==
  /\ worker = "returned"
  /\ ws_source.total_rows > 0
  /\ ws_source.max_col = 0
  /\ heading_arg = MaxHead
  /\ chunk_size = MaxChunk
  /\ EndedWith("success")

\* C11: the worker puts one progress event per chunk it starts, before the
\* chunk is built and saved, with step = i + 1: the steps sent are 1, 2, 3,
\* ... in this order, as many as boundary checks were passed, and the event
\* of chunk i + 1 is put only after the save of chunk i has succeeded.
C11_ProgressPerChunk ==
  LET ps == ProgressSent
  IN  /\ \A k \in 1..Len(ps) : ps[k].step = k
      /\ Len(ps) = IF EndedWith("cancelled") THEN Len(cancel_reads) - 1 ELSE Len(cancel_reads)
      /\ (worker \in {"build", "save"})
           => (Len(ps) = i + 1 /\ Len(disk) = i /\ Len(save_attempts) = i)
      /\ (worker = "loop") => (Len(ps) = i /\ Len(disk) = i)
      /\ Len(ps) <= Len(disk) + 1
      /\ Len(save_attempts) <= Len(ps)

\* C11 witness: the third chunk has been announced and built, not yet saved.
C11_Witness ==
  /\ worker = "save"
  /\ i = 2
  /\ Len(ProgressSent) = 3
  /\ Len(disk) = 2

\* The range m lies inside the rows lo..hi.
Inside(m, lo, hi) == m.min_row >= lo /\ m.max_row <= hi

\* The range m lies inside the data window of one planned chunk.
InsideSomeWindow(m) ==
  \E k \in 0..(num_chunks - 1) : Inside(m, PlanWindow(k)[1], PlanWindow(k)[2])

C13_OneSummary ==
  /\ [](Len(summary) <= 1)
  /\ []((ui = "destroyed") <=> (Len(summary) = 1))
  /\ [][(ui = "destroyed") => (ui' = "destroyed" /\ summary' = summary
                                 /\ progress_queue' = progress_queue)]_vars
  /\ (worker # "not_started") ~> (Len(summary) = 1 /\ ui = "destroyed")

\* C13 witness: the summary of a run of two chunks has been shown and the
\* worker's thread has ended.
C13_Witness ==
  /\ Len(summary) = 1
  /\ ui = "destroyed"
  /\ ~alive
  /\ Len(disk) = 2

\* _copy_row_formatting has returned.
RowCopied == col_idx = Len(source_row.cells) + 2

RowLayout(book, w) ==
  /\ Len(book.rows) = heading_rows + (w[2] - w[1] + 1)
  /\ \A t \in 1..heading_rows : book.rows[t] = t
  /\ \A r \in w[1]..w[2] : book.rows[r - w[1] + heading_rows + 1] = r
  /\ (heading_rows = 0) => book.rows[1] = w[1]

\* C15: every chunk built and every chunk saved has the header rows on
\* target rows 1..heading_rows followed by the data rows start..end in order
\* on target rows heading_rows + 1 .. heading_rows + (end - start + 1); with
\* heading_rows = 0 the data starts on target row 1.
C15_RowLayout ==
  /\ (worker = "save") => RowLayout(wb_chunk, window)
  /\ \A k \in 1..Len(disk) : RowLayout(disk[k].book, disk[k].path)

\* C15 witness: the second chunk of a sheet with two header rows is saved.
C15_Witness ==
  /\ heading_rows = 2
  /\ Len(disk) = 2
  /\ disk[2].path[1] > heading_rows + 1

\* C16: on every tick check_queue has taken every event that was pending
\* in the queue when it goes on to decide (the is_alive test) or to finish:
\* the get of a tick leaves no already-enqueued event behind.
C16_TickDrainsQueue ==
  [][(ui = "timer" /\ ui' # "timer") => progress_queue' = <<>>]_vars

\* The worker is past line 212.
Clamped ==
  \/ Planned
  \/ (sent # <<>> /\ IsResult(Last(sent))
        /\ Last(sent).message.text = "All rows were headers. One file created.")

\* C17: for every heading_rows argument, negative and larger than
\* total_rows included, the effective header count is 0 for a negative
\* argument, total_rows for one above total_rows and the argument otherwise,
\* so it lies in [0, total_rows]; every data window and every source row
\* copied to a chunk lies in [1, total_rows].
C17_HeaderClamped ==
  Clamped =>
    LET T == ws_source.total_rows
    IN  /\ heading_rows \in 0..T
        /\ (heading_arg < 0) => heading_rows = 0
        /\ (heading_arg \in 0..T) => heading_rows = heading_arg
        /\ (heading_arg > T) => heading_rows = T
        /\ (worker \in {"build", "save"}) => (window[1] \in 1..T /\ window[2] \in 1..T)
        /\ \A t \in 1..Len(wb_chunk.rows) : wb_chunk.rows[t] \in 1..T
        /\ \A k \in 1..Len(disk) :
             \A t \in 1..Len(disk[k].book.rows) : disk[k].book.rows[t] \in 1..T

\* C17 witness: a negative heading_rows argument, and two chunks saved.
C17_Witness ==
  /\ heading_arg < 0
  /\ heading_rows = 0
  /\ Len(disk) = 2

\* C18: the engine is never started with a chunk_size or a header_rows above
\* MAX_ROW: such an entry is not accepted as a processing parameter.
C18_EngineWithinMaxRow ==
  (worker # "not_started") => (chunk_size <= MAX_ROW /\ heading_arg <= MAX_ROW)

\* C19: after the setup prompts the application eventually reaches
\* root.destroy() on every path of start_processing.
C19_AppTerminates == <>(ui = "destroyed")

\* The pre-scan counted its chunks from the total_rows the worker loaded.
SameTotalRows ==
  /\ ws_source # NoSheet
  /\ total_steps = NumChunksCheck(ws_source.total_rows, heading_arg, chunk_size)

\* total_steps is never 0 while the progress window exists; with the same
\* total_rows, total_steps is the worker's num_chunks and every progress
\* event has 1 <= step <= total_steps.
StepsWithinTotal ==
  /\ (ui \in {"timer", "is_alive"}) => total_steps >= 1
  /\ SameTotalRows =>
       /\ Planned => num_chunks = total_steps
       /\ \A k \in 1..Len(sent) :
            (~IsResult(sent[k])) => sent[k].step \in 1..total_steps

\* A progress event with step = total_steps was sent.
LastStepSent ==
  \E k \in 1..Len(sent) : ~IsResult(sent[k]) /\ sent[k].step = total_steps

FromChunkLoop(e) ==
  /\ IsResult(e)
  /\ \/ e.status = "cancelled"
     \/ (e.status = "error" /\ e.message.text = "Error saving")
     \/ (e.status = "success" /\ e.message.text = "Successfully created files")

\* files_created is the number of files saved so far, i at a boundary check,
\* and what a result of the chunk loop reports; success reports num_chunks.
CountIsSaved ==
  /\ files_created = Len(disk)
  /\ (worker = "loop") => files_created = i
  /\ \A k \in 1..Len(sent) :
       FromChunkLoop(sent[k]) =>
         /\ sent[k].files_created = Len(disk)
         /\ (sent[k].status = "success") => sent[k].files_created = num_chunks

\* files_created never decreases and moves by exactly 1, with a file saved.
CountStep ==
  /\ files_created' >= files_created
  /\ (files_created' # files_created \/ Len(disk') # Len(disk)) =>
       (files_created' = files_created + 1 /\ Len(disk') = Len(disk) + 1)

\* C21: throughout the chunk loop files_created equals the number of chunk
\* files saved so far, which is i at the boundary check of chunk index i; it
\* only increases, by exactly 1 per successful save; the files_created of a
\* cancelled, save-error or loop-completing success result equals that
\* count, and success reports exactly num_chunks.
C21_FilesCreatedCountsSaves == []CountIsSaved /\ [][CountStep]_vars

\* C21 witness: the run was cancelled at the boundary check of the third
\* chunk and reports the two files saved before it.
C21_Witness ==
  /\ worker = "returned"
  /\ EndedWith("cancelled")
  /\ Last(sent).files_created = 2
  /\ Len(disk) = 2
  /\ num_chunks >= 3

=============================================================================
